---- MODULE Spec2Model ----
(***************************************************************************)
(* Verilator C++ harness src/sim/rtl_dump_main.cpp: reset sequence,        *)
(* AXI4-Lite register write (configure_kernel), AXI4-Stream producer and   *)
(* consumer inside the main simulation loop, and the shutdown.             *)
(*                                                                         *)
(* The DUT (Vaxi4s_rgb_dw_pw_top) is an opaque pin-level black box: every  *)
(* dut->eval() may set the DUT-driven pins to any value.  A second         *)
(* specification, SpecIdentity, fixes the DUT to a pass-through.           *)
(***************************************************************************)
EXTENDS Integers, Sequences, FiniteSets, TLC

\* ------------------------------------------------------------------ bounds
\* The image is scaled down from 640 x 480 (lines 13-14).
IMAGE_WIDTH == 2
IMAGE_HEIGHT == 2
\* The cycle budget is scaled down from the literal 1000000 of line 113.
MaxCycles == 8
\* Largest value the DUT puts on m_axis_tuser in the model.
TuserMax == 2

\* ------------------------------------------------------- program constants
\* for (int i = 0; i < 10; i++) of the reset sequence
ResetIters == 10
\* k00 of configure_kernel(dut, 0, -1, 0, -1, 4, -1, 0, -1, 0)
K00 == 0

NumPixels == IMAGE_WIDTH * IMAGE_HEIGHT

Bit == {0, 1}

\* Words the opaque DUT may present on m_axis_tdata: zero, and a word with
\* four distinct bytes (0x01020304) whose top byte the consumer must drop.
DutData == {0, 16909060}

VARIABLES
    pc,            \* position of main(): "reset", "cfg_wait", "loop", "done"
    i,             \* loop variable of the reset sequence
    dut,           \* the pins of the DUT (dut->...)
    input_image,   \* std::vector<uint8_t>, indexed from 0
    output_image,  \* std::vector<uint8_t>, indexed from 0
    pixel_count,
    cycle_count,
    input_active,
    output_active,
    ppm_file,      \* "none", "written" or "failed"
    released,      \* trace closed and DUT deleted
    wr_idx,        \* history: out_pixel stored by the consumer in the latest
                   \* iteration, -1 when it stored nothing
    wr_user,       \* history: m_axis_tuser of the transfer the consumer took
                   \* in the latest iteration, -1 when it took none
    out_captured,  \* history: number of output transfers the consumer took
    retired,       \* history: number of handshakes the producer retired
    trace_time,    \* timestamp of the latest trace->dump(), -1 before any
    trace_dumps    \* number of trace->dump() calls so far

vars == <<pc, i, dut, input_image, output_image, pixel_count, cycle_count,
          input_active, output_active, ppm_file, released, wr_idx, wr_user,
          out_captured, retired, trace_time, trace_dumps>>

\* ------------------------------------------------------------ pure helpers
\* !x of C++ on a pin
Not(x) == IF x = 0 THEN 1 ELSE 0

\* Mutant of PackRGB: the shifts of G and B are exchanged.
PackRGBSwapped(r, g, b) == g * 65536 + b * 256 + r

\* (b << 16) | (g << 8) | r on three bytes
PackRGB(r, g, b) == b * 65536 + g * 256 + r

\* output_data & 0xFF, (output_data >> 8) & 0xFF, (output_data >> 16) & 0xFF
UnpackR(w) == w % 256
UnpackG(w) == (w \div 256) % 256
UnpackB(w) == (w \div 65536) % 256

\* generate_test_pattern: byte k of the gradient image
PatternByte(k) ==
    LET p == k \div 3
        x == p % IMAGE_WIDTH
        y == p \div IMAGE_WIDTH
    IN  CASE k % 3 = 0 -> (x * 255) \div IMAGE_WIDTH
          [] k % 3 = 1 -> (y * 255) \div IMAGE_HEIGHT
          [] OTHER     -> ((x + y) * 255) \div (IMAGE_WIDTH + IMAGE_HEIGHT)

generate_test_pattern == [k \in 0 .. (3 * NumPixels - 1) |-> PatternByte(k)]

ZeroImage == [k \in 0 .. (3 * NumPixels - 1) |-> 0]

\* ------------------------------------------------------------------- DUT
\* Pins the DUT drives, with s_axi_awready in aw and s_axi_wready in w.
\* The harness reads m_axis_tdata and m_axis_tuser only under
\* m_axis_tvalid (line 151), so their values are tracked only when
\* m_axis_tvalid is set.
DutPins(aw, w) ==
    [s_axi_awready : aw, s_axi_wready : w, s_axis_tready : Bit,
     m_axis_tvalid : {0}, m_axis_tdata : {0}, m_axis_tuser : {0}]
    \cup
    [s_axi_awready : aw, s_axi_wready : w, s_axis_tready : Bit,
     m_axis_tvalid : {1}, m_axis_tdata : DutData,
     m_axis_tuser : 0 .. TuserMax]

\* An identity pass-through: the input transfer appears unchanged on the
\* output port when it is accepted; s_axis_tready is free (backpressure).
IdentityPins(d, aw, w) ==
    [s_axi_awready : aw, s_axi_wready : w, s_axis_tready : {0},
     m_axis_tvalid : {0}, m_axis_tdata : {d.s_axis_tdata},
     m_axis_tuser : {d.s_axis_tuser}]
    \cup
    [s_axi_awready : aw, s_axi_wready : w, s_axis_tready : {1},
     m_axis_tvalid : {IF d.s_axis_tvalid # 0 THEN 1 ELSE 0},
     m_axis_tdata : {d.s_axis_tdata}, m_axis_tuser : {d.s_axis_tuser}]

\* What one dut->eval() may leave on the DUT-driven pins.  Once streaming
\* has started (m_axis_tready set, line 108) no code reads s_axi_awready or
\* s_axi_wready any more, and they are tracked no further.
EvalOutputs(mode, d) ==
    LET aw == IF d.m_axis_tready = 1 THEN {d.s_axi_awready} ELSE Bit
        w == IF d.m_axis_tready = 1 THEN {d.s_axi_wready} ELSE Bit
    IN  IF mode = "identity" THEN IdentityPins(d, aw, w) ELSE DutPins(aw, w)

\* dut->eval(): the harness-driven pins stay, the DUT-driven pins become o
Eval(d, o) ==
    [d EXCEPT !.s_axi_awready = o.s_axi_awready,
              !.s_axi_wready = o.s_axi_wready,
              !.s_axis_tready = o.s_axis_tready,
              !.m_axis_tvalid = o.m_axis_tvalid,
              !.m_axis_tdata = o.m_axis_tdata,
              !.m_axis_tuser = o.m_axis_tuser]

\* dut->clk = !dut->clk; dut->s_axi_aclk = !dut->s_axi_aclk;
ClockToggle(d) ==
    [d EXCEPT !.clk = Not(d.clk), !.s_axi_aclk = Not(d.s_axi_aclk)]

\* ------------------------------------------------------------------ Init
\* After "new Vaxi4s_rgb_dw_pw_top" and lines 72-75.
Init ==
    /\ pc = "reset"
    /\ i = 0
    /\ dut = [clk |-> 0, rst_n |-> 0, s_axi_aclk |-> 0, s_axi_aresetn |-> 0,
              s_axi_awaddr |-> 0, s_axi_awvalid |-> 0, s_axi_wdata |-> 0,
              s_axi_wvalid |-> 0, s_axi_wstrb |-> 0,
              s_axi_awready |-> 0, s_axi_wready |-> 0,
              s_axis_tdata |-> 0, s_axis_tvalid |-> 0, s_axis_tlast |-> 0,
              s_axis_tuser |-> 0, s_axis_tready |-> 0,
              m_axis_tready |-> 0, m_axis_tvalid |-> 0, m_axis_tdata |-> 0,
              m_axis_tuser |-> 0]
    /\ input_image = << >>
    /\ output_image = << >>
    /\ pixel_count = 0
    /\ cycle_count = 0
    /\ input_active = TRUE
    /\ output_active = FALSE
    /\ ppm_file = "none"
    /\ released = FALSE
    /\ wr_idx = -1
    /\ wr_user = -1
    /\ out_captured = 0
    /\ retired = 0
    /\ trace_time = -1
    /\ trace_dumps = 0

\* ------------------------------------------------------- reset and config
\* One iteration of the reset sequence: clock toggle, eval,
\* trace->dump(i * 2).
ResetStep(mode) ==
    /\ pc = "reset"
    /\ i < ResetIters
    /\ \E o \in EvalOutputs(mode, ClockToggle(dut)) :
          dut' = Eval(ClockToggle(dut), o)
    /\ trace_time' = i * 2
    /\ trace_dumps' = trace_dumps + 1
    /\ i' = i + 1
    /\ UNCHANGED <<pc, input_image, output_image, pixel_count, cycle_count,
                   input_active, output_active, ppm_file, released, wr_idx,
                   wr_user, out_captured, retired>>

\* End of the reset sequence, release of the resets, and the pin
\* assignments that open configure_kernel.
ConfigureKernelDrive ==
    /\ pc = "reset"
    /\ i >= ResetIters
    /\ dut' = [dut EXCEPT !.rst_n = 1, !.s_axi_aresetn = 1,
                          !.s_axi_awaddr = 0, !.s_axi_awvalid = 1,
                          !.s_axi_wdata = K00, !.s_axi_wvalid = 1,
                          !.s_axi_wstrb = 15]
    /\ pc' = "cfg_wait"
    /\ UNCHANGED <<i, input_image, output_image, pixel_count, cycle_count,
                   input_active, output_active, ppm_file, released, wr_idx,
                   wr_user, out_captured, retired, trace_time, trace_dumps>>

\* Mutant of WriteHandshake: one of the two ready pins is enough.
WriteHandshakeEither(d) == d.s_axi_awready = 1 \/ d.s_axi_wready = 1

\* while (!(dut->s_axi_awready && dut->s_axi_wready))
WriteHandshake(d) == d.s_axi_awready = 1 /\ d.s_axi_wready = 1

\* One iteration of the wait loop of configure_kernel: eval() and nothing
\* else, no clock toggle.
ConfigureKernelWait(mode) ==
    /\ pc = "cfg_wait"
    /\ ~WriteHandshake(dut)
    /\ \E o \in EvalOutputs(mode, dut) : dut' = Eval(dut, o)
    /\ UNCHANGED <<pc, i, input_image, output_image, pixel_count,
                   cycle_count, input_active, output_active, ppm_file,
                   released, wr_idx, wr_user, out_captured, retired,
                   trace_time, trace_dumps>>

\* Mutant of StreamInit: m_axis_tready is left low.
StreamInitNotReady(d) ==
    [d EXCEPT !.s_axis_tvalid = 0, !.s_axis_tlast = 0, !.s_axis_tuser = 0,
              !.m_axis_tready = 0]

\* AXI-Stream signal initialisation of lines 105-108
StreamInit(d) ==
    [d EXCEPT !.s_axis_tvalid = 0, !.s_axis_tlast = 0, !.s_axis_tuser = 0,
              !.m_axis_tready = 1]

\* Exit of the wait loop, end of configure_kernel, and main() up to the
\* main loop: images, simulation variables, AXI-Stream pins.
ConfigureKernelDone ==
    /\ pc = "cfg_wait"
    /\ WriteHandshake(dut)
    /\ dut' = StreamInit([dut EXCEPT !.s_axi_awvalid = 0,
                                     !.s_axi_wvalid = 0])
    /\ input_image' = generate_test_pattern
    /\ output_image' = ZeroImage
    /\ pixel_count' = 0
    /\ cycle_count' = 0
    /\ input_active' = TRUE
    /\ output_active' = FALSE
    /\ pc' = "loop"
    /\ UNCHANGED <<i, ppm_file, released, wr_idx, wr_user, out_captured,
                   retired, trace_time, trace_dumps>>

\* ------------------------------------------------------------- main loop
\* Mutant of LoopCond: the cycle budget is not tested.
LoopCondNoBudget(pcnt, ccnt) == pcnt < NumPixels

\* while (pixel_count < IMAGE_WIDTH * IMAGE_HEIGHT && cycle_count < 1000000)
LoopCond(pcnt, ccnt) == pcnt < NumPixels /\ ccnt < MaxCycles

\* Mutant of EndOfLine: the test is made on the count before the increment.
EndOfLineOffByOne(pcnt) == IF pcnt % IMAGE_WIDTH = 0 THEN 1 ELSE 0

\* if ((pixel_count + 1) % IMAGE_WIDTH == 0) tlast = 1 else tlast = 0
EndOfLine(pcnt) == IF (pcnt + 1) % IMAGE_WIDTH = 0 THEN 1 ELSE 0

\* Mutant of Offer: the pixel is read after the counter was advanced.
OfferNextPixel(d, pcnt, img) ==
    LET pixel_idx == ((pcnt + 1) % NumPixels) * 3
        rgb_data == PackRGB(img[pixel_idx + 0], img[pixel_idx + 1],
                            img[pixel_idx + 2])
    IN  [dut |-> [d EXCEPT !.s_axis_tdata = rgb_data,
                           !.s_axis_tvalid = 1,
                           !.s_axis_tlast = EndOfLine(pcnt),
                           !.s_axis_tuser = (pcnt + 1) % IMAGE_WIDTH],
         pixel_count |-> pcnt + 1,
         input_active |-> FALSE]

\* The offer of lines 121-141.
Offer(d, pcnt, img) ==
    LET pixel_idx == pcnt * 3
        rgb_data == PackRGB(img[pixel_idx + 0], img[pixel_idx + 1],
                            img[pixel_idx + 2])
    IN  [dut |-> [d EXCEPT !.s_axis_tdata = rgb_data,
                           !.s_axis_tvalid = 1,
                           !.s_axis_tlast = EndOfLine(pcnt),
                           !.s_axis_tuser = pcnt % IMAGE_WIDTH],
         pixel_count |-> pcnt + 1,
         input_active |-> FALSE]

\* Mutant of ProducerStep: the producer does not wait for the handshake and
\* offers the next pixel on every iteration.
ProducerStepNoWait(d, pcnt, act, img) ==
    IF pcnt < NumPixels
    THEN Offer(d, pcnt, img)
    ELSE [dut |-> d, pixel_count |-> pcnt, input_active |-> act]

\* Mutant of ProducerStep: the retire branch does not look at s_axis_tready.
ProducerStepRetireBlind(d, pcnt, act, img) ==
    IF act /\ pcnt < NumPixels
    THEN IF d.s_axis_tvalid = 0
            \/ (d.s_axis_tvalid # 0 /\ d.s_axis_tready # 0)
         THEN Offer(d, pcnt, img)
         ELSE [dut |-> d, pixel_count |-> pcnt, input_active |-> act]
    ELSE IF d.s_axis_tvalid # 0
         THEN [dut |-> [d EXCEPT !.s_axis_tvalid = 0, !.s_axis_tlast = 0],
               pixel_count |-> pcnt,
               input_active |-> TRUE]
         ELSE [dut |-> d, pixel_count |-> pcnt, input_active |-> act]

\* Mutant of ProducerStep: the retire branch leaves s_axis_tvalid asserted.
ProducerStepKeepValid(d, pcnt, act, img) ==
    IF act /\ pcnt < NumPixels
    THEN IF d.s_axis_tvalid = 0
            \/ (d.s_axis_tvalid # 0 /\ d.s_axis_tready # 0)
         THEN Offer(d, pcnt, img)
         ELSE [dut |-> d, pixel_count |-> pcnt, input_active |-> act]
    ELSE IF d.s_axis_tvalid # 0 /\ d.s_axis_tready # 0
         THEN [dut |-> [d EXCEPT !.s_axis_tlast = 0],
               pixel_count |-> pcnt,
               input_active |-> TRUE]
         ELSE [dut |-> d, pixel_count |-> pcnt, input_active |-> act]

\* Mutant of ProducerStep: pixel_count is advanced when a transfer is
\* accepted, not when it is offered.
ProducerStepCountAccepted(d, pcnt, act, img) ==
    IF act /\ pcnt < NumPixels
    THEN IF d.s_axis_tvalid = 0
            \/ (d.s_axis_tvalid # 0 /\ d.s_axis_tready # 0)
         THEN [dut |-> Offer(d, pcnt, img).dut, pixel_count |-> pcnt,
               input_active |-> FALSE]
         ELSE [dut |-> d, pixel_count |-> pcnt, input_active |-> act]
    ELSE IF d.s_axis_tvalid # 0 /\ d.s_axis_tready # 0
         THEN [dut |-> [d EXCEPT !.s_axis_tvalid = 0, !.s_axis_tlast = 0],
               pixel_count |-> pcnt + 1,
               input_active |-> TRUE]
         ELSE [dut |-> d, pixel_count |-> pcnt, input_active |-> act]

\* Mutant of ProducerStep: an accepted transfer is followed by the next
\* offer in the same iteration.
ProducerStepBackToBack(d, pcnt, act, img) ==
    IF act /\ pcnt < NumPixels
    THEN IF d.s_axis_tvalid = 0
            \/ (d.s_axis_tvalid # 0 /\ d.s_axis_tready # 0)
         THEN Offer(d, pcnt, img)
         ELSE [dut |-> d, pixel_count |-> pcnt, input_active |-> act]
    ELSE IF d.s_axis_tvalid # 0 /\ d.s_axis_tready # 0
         THEN IF pcnt < NumPixels
              THEN Offer(d, pcnt, img)
              ELSE [dut |-> [d EXCEPT !.s_axis_tvalid = 0,
                                      !.s_axis_tlast = 0],
                    pixel_count |-> pcnt,
                    input_active |-> TRUE]
         ELSE [dut |-> d, pixel_count |-> pcnt, input_active |-> act]

\* Input side, lines 119-148.
ProducerStep(d, pcnt, act, img) ==
    IF act /\ pcnt < NumPixels
    THEN IF d.s_axis_tvalid = 0
            \/ (d.s_axis_tvalid # 0 /\ d.s_axis_tready # 0)
         THEN Offer(d, pcnt, img)
         ELSE [dut |-> d, pixel_count |-> pcnt, input_active |-> act]
    ELSE IF d.s_axis_tvalid # 0 /\ d.s_axis_tready # 0
         THEN [dut |-> [d EXCEPT !.s_axis_tvalid = 0, !.s_axis_tlast = 0],
               pixel_count |-> pcnt,
               input_active |-> TRUE]
         ELSE [dut |-> d, pixel_count |-> pcnt, input_active |-> act]

\* Mutant of OutPixel: the column is tuser itself.
OutPixelSameColumn(u) == (u * IMAGE_WIDTH + (u % IMAGE_WIDTH)) % NumPixels

\* int out_pixel = (tuser * IMAGE_WIDTH + ((tuser + 1) % IMAGE_WIDTH))
\*                 % (IMAGE_WIDTH * IMAGE_HEIGHT);
OutPixel(u) == (u * IMAGE_WIDTH + ((u + 1) % IMAGE_WIDTH)) % NumPixels

\* output_image[out_idx + 0] = r; [out_idx + 1] = g; [out_idx + 2] = b;
Store(img, out_idx, r, g, b) ==
    [k \in DOMAIN img |-> CASE k = out_idx + 0 -> r
                            [] k = out_idx + 1 -> g
                            [] k = out_idx + 2 -> b
                            [] OTHER           -> img[k]]

\* Mutant of ConsumerStep: the destination is neither reduced modulo the
\* image size nor bounds-checked.
ConsumerStepUnchecked(d, img, oact) ==
    IF d.m_axis_tvalid # 0 /\ d.m_axis_tready # 0
    THEN LET out_pixel == d.m_axis_tuser * IMAGE_WIDTH
                          + ((d.m_axis_tuser + 1) % IMAGE_WIDTH)
         IN  [output_image |-> Store(img, out_pixel * 3,
                                     UnpackR(d.m_axis_tdata),
                                     UnpackG(d.m_axis_tdata),
                                     UnpackB(d.m_axis_tdata)),
              output_active |-> TRUE, wr_idx |-> out_pixel,
              wr_user |-> d.m_axis_tuser, taken |-> 1]
    ELSE [output_image |-> img, output_active |-> oact, wr_idx |-> -1,
          wr_user |-> -1, taken |-> 0]

\* Output side, lines 151-170.  wr_idx is the pixel index stored to (-1:
\* nothing stored), wr_user the m_axis_tuser read (-1: none), taken is 1
\* when the branch of line 151 was entered.
ConsumerStep(d, img, oact) ==
    IF d.m_axis_tvalid # 0 /\ d.m_axis_tready # 0
    THEN LET output_data == d.m_axis_tdata
             r == UnpackR(output_data)
             g == UnpackG(output_data)
             b == UnpackB(output_data)
             out_pixel == OutPixel(d.m_axis_tuser)
         IN  IF out_pixel < NumPixels
             THEN [output_image |-> Store(img, out_pixel * 3, r, g, b),
                   output_active |-> TRUE, wr_idx |-> out_pixel,
                   wr_user |-> d.m_axis_tuser, taken |-> 1]
             ELSE [output_image |-> img, output_active |-> TRUE,
                   wr_idx |-> -1, wr_user |-> d.m_axis_tuser, taken |-> 1]
    ELSE [output_image |-> img, output_active |-> oact, wr_idx |-> -1,
          wr_user |-> -1, taken |-> 0]

\* Mutant of LoopIter: the DUT is evaluated before the input side and the
\* output side run, so both act on the outputs of the same iteration.
LoopIterEvalFirst(mode) ==
    /\ pc = "loop"
    /\ LoopCond(pixel_count, cycle_count)
    /\ \E o \in EvalOutputs(mode, ClockToggle(dut)) :
          LET e == Eval(ClockToggle(dut), o)
              p == ProducerStep(e, pixel_count, input_active, input_image)
              c == ConsumerStep(p.dut, output_image, output_active)
          IN  /\ pixel_count' = p.pixel_count
              /\ input_active' = p.input_active
              /\ output_image' = c.output_image
              /\ output_active' = c.output_active
              /\ wr_idx' = c.wr_idx
              /\ wr_user' = c.wr_user
              /\ out_captured' = out_captured + c.taken
              /\ retired' = retired
                            + (IF ~input_active /\ p.input_active
                               THEN 1 ELSE 0)
              /\ trace_time' = cycle_count
              /\ trace_dumps' = trace_dumps + 1
              /\ cycle_count' = cycle_count + 1
              /\ UNCHANGED <<pc, i, input_image, ppm_file, released>>
              /\ dut' = p.dut

\* One iteration of the main simulation loop, lines 113-183: clock toggle,
\* input side, output side, eval, trace->dump(cycle_count), cycle_count++.
LoopIter(mode) ==
    /\ pc = "loop"
    /\ LoopCond(pixel_count, cycle_count)
    /\ LET p == ProducerStep(ClockToggle(dut), pixel_count, input_active,
                             input_image)
           c == ConsumerStep(p.dut, output_image, output_active)
       IN  /\ pixel_count' = p.pixel_count
           /\ input_active' = p.input_active
           /\ output_image' = c.output_image
           /\ output_active' = c.output_active
           /\ wr_idx' = c.wr_idx
           /\ wr_user' = c.wr_user
           /\ out_captured' = out_captured + c.taken
           /\ retired' = retired
                         + (IF ~input_active /\ p.input_active THEN 1 ELSE 0)
           /\ trace_time' = cycle_count
           /\ trace_dumps' = trace_dumps + 1
           /\ cycle_count' = cycle_count + 1
           /\ UNCHANGED <<pc, i, input_image, ppm_file, released>>
           /\ \E o \in EvalOutputs(mode, p.dut) : dut' = Eval(p.dut, o)

\* Exit of the main loop and the rest of main(): the PPM file is written
\* or its failure is reported, the trace is closed, the DUT is deleted.
Shutdown ==
    /\ pc = "loop"
    /\ ~LoopCond(pixel_count, cycle_count)
    /\ ppm_file' \in {"written", "failed"}
    /\ released' = TRUE
    /\ pc' = "done"
    /\ UNCHANGED <<i, dut, input_image, output_image, pixel_count,
                   cycle_count, input_active, output_active, wr_idx,
                   wr_user, out_captured, retired, trace_time, trace_dumps>>

\* --------------------------------------------------------- specifications
NextOf(mode) ==
    \/ ResetStep(mode)
    \/ ConfigureKernelDrive
    \/ ConfigureKernelWait(mode)
    \/ ConfigureKernelDone
    \/ LoopIter(mode)
    \/ Shutdown

\* The DUT is opaque.
Next == NextOf("opaque")

Spec == Init /\ [][Next]_vars

\* The DUT is an identity pass-through.
NextIdentity == NextOf("identity")

SpecIdentity == Init /\ [][NextIdentity]_vars

\* The opaque DUT, with the program always taking its next step.
SpecFair == Init /\ [][Next]_vars /\ WF_vars(Next)

\* Packing and unpacking over arbitrary channel values: the main loop is
\* entered with an input image whose pixels all carry channels (r, g, b)
\* drawn from ByteSamples, and the DUT is the identity pass-through, so the
\* consumer unpacks the very words the producer packed.
ByteSamples == {0, 1, 128, 255}

InitPack ==
    /\ pc = "loop"
    /\ i = ResetIters
    /\ \E rdy \in Bit :
          dut = StreamInit(
                  [clk |-> 0, rst_n |-> 1, s_axi_aclk |-> 0,
                   s_axi_aresetn |-> 1, s_axi_awaddr |-> 0,
                   s_axi_awvalid |-> 0, s_axi_wdata |-> K00,
                   s_axi_wvalid |-> 0, s_axi_wstrb |-> 15,
                   s_axi_awready |-> 1, s_axi_wready |-> 1,
                   s_axis_tdata |-> 0, s_axis_tvalid |-> 0,
                   s_axis_tlast |-> 0, s_axis_tuser |-> 0,
                   s_axis_tready |-> rdy, m_axis_tready |-> 0,
                   m_axis_tvalid |-> 0, m_axis_tdata |-> 0,
                   m_axis_tuser |-> 0])
    /\ \E r \in ByteSamples, g \in ByteSamples, b \in ByteSamples :
          input_image = [k \in 0 .. (3 * NumPixels - 1) |->
                            CASE k % 3 = 0 -> r
                              [] k % 3 = 1 -> g
                              [] OTHER     -> b]
    /\ output_image = ZeroImage
    /\ pixel_count = 0
    /\ cycle_count = 0
    /\ input_active = TRUE
    /\ output_active = FALSE
    /\ ppm_file = "none"
    /\ released = FALSE
    /\ wr_idx = -1
    /\ wr_user = -1
    /\ out_captured = 0
    /\ retired = 0
    /\ trace_time = (ResetIters - 1) * 2
    /\ trace_dumps = ResetIters

NextPack ==
    \/ LoopIter("identity")
    \/ Shutdown

SpecPack == InitPack /\ [][NextPack]_vars

\* ----------------------------------------------------------------- claims
Streaming == pc \in {"loop", "done"}

LoopOver == pc = "done"

\* C1: with an identity pass-through DUT, a main loop that stops by itself
\* (not by the cycle budget) leaves the output image equal to the input
\* image, byte for byte.
C1_IdentityReproducesInput ==
    (LoopOver /\ cycle_count < MaxCycles) => output_image = input_image

\* C2: the main loop runs at most MaxCycles iterations whatever the DUT
\* does, and as long as the DUT has shown no output-valid to the consumer
\* the output image is still entirely zero.
C2_BudgetHonoured ==
    /\ cycle_count <= MaxCycles
    /\ (Streaming /\ out_captured = 0) => output_image = ZeroImage

\* C2 witness: the budget stopped a loop whose DUT never accepted the first
\* pixel and never presented an output.
C2_Witness ==
    /\ LoopOver
    /\ cycle_count = MaxCycles
    /\ pixel_count = 1
    /\ out_captured = 0
    /\ output_image = ZeroImage

\* C3: when the main loop has stopped before the cycle budget, all W*H
\* output transfers have been captured by the consumer.
C3_ExitMeansAllOutputs ==
    (LoopOver /\ cycle_count < MaxCycles) => out_captured >= NumPixels

\* C4: while s_axis_tvalid is asserted and s_axis_tready is low, an
\* iteration leaves tvalid, tdata, tlast and tuser as they are and offers
\* no new pixel; no pixel is offered in an iteration that starts with
\* tvalid asserted.
C4_OneOutstanding ==
    [][(pc = "loop" /\ dut.s_axis_tvalid = 1) =>
          /\ pixel_count' = pixel_count
          /\ dut'.s_axis_tdata = dut.s_axis_tdata
          /\ dut'.s_axis_tuser = dut.s_axis_tuser
          /\ dut.s_axis_tready = 0 =>
                (/\ dut'.s_axis_tvalid = 1
                 /\ dut'.s_axis_tlast = dut.s_axis_tlast)]_vars

\* C4 witness: the first pixel has been held under backpressure for at
\* least two iterations.
C4_Witness ==
    /\ pc = "loop"
    /\ cycle_count >= 3
    /\ pixel_count = 1
    /\ dut.s_axis_tvalid = 1
    /\ dut.s_axis_tready = 0
    /\ dut.s_axis_tdata = PackRGB(input_image[0], input_image[1],
                                  input_image[2])

\* C5: while input transfer i = pixel_count - 1 is on the port,
\* s_axis_tlast is asserted iff (i + 1) mod W = 0; tlast is never asserted
\* without tvalid.
C5_LastIffEndOfRow ==
    Streaming =>
        IF dut.s_axis_tvalid = 1
        THEN /\ pixel_count >= 1
             /\ dut.s_axis_tlast = 1 <=>
                   ((pixel_count - 1) + 1) % IMAGE_WIDTH = 0
        ELSE dut.s_axis_tlast = 0

\* C5 witness: the very last pixel of the image is on the port with last.
C5_Witness ==
    /\ Streaming
    /\ dut.s_axis_tvalid = 1
    /\ dut.s_axis_tlast = 1
    /\ pixel_count = NumPixels

\* C6: for every m_axis_tuser and m_axis_tdata the DUT presents, the
\* consumer stores only to pixel indices in [0, W*H), byte offsets in
\* [0, 3*W*H).
C6_WritesInBounds ==
    wr_idx # -1 =>
        /\ 0 <= wr_idx
        /\ wr_idx < NumPixels
        /\ 3 * wr_idx >= 0
        /\ 3 * wr_idx + 2 < 3 * NumPixels

\* C6 witness: the consumer stored a transfer whose tuser is not a column
\* index.
C6_Witness ==
    /\ wr_user >= IMAGE_WIDTH
    /\ wr_idx # -1
    /\ output_image # ZeroImage

\* C7: every run eventually reaches the clean shutdown, whatever the DUT
\* does.
C7_CleanShutdown ==
    <>(pc = "done" /\ released /\ ppm_file \in {"written", "failed"})

\* C8: m_axis_tready is 1 from the start of streaming to the end of the
\* main loop, and every iteration that finds m_axis_tvalid asserted
\* captures the transfer.
C8_NeverBackpressures ==
    [][Streaming =>
          /\ dut.m_axis_tready = 1
          /\ dut'.m_axis_tready = 1
          /\ (pc = "loop" /\ LoopCond(pixel_count, cycle_count)
              /\ dut.m_axis_tvalid = 1) =>
                (/\ out_captured' = out_captured + 1
                 /\ output_active'
                 /\ wr_user' = dut.m_axis_tuser)]_vars

\* C8 witness: the DUT presented a transfer on each of three iterations in
\* a row and each was captured.
C8_Witness ==
    /\ pc = "loop"
    /\ cycle_count = 3
    /\ out_captured = 3
    /\ dut.m_axis_tready = 1

\* C9: once pixel_count has reached W*H and the loop is over, the handshake
\* of the last pixel has been retired and s_axis_tvalid is low.
C9_ValidRetired ==
    (LoopOver /\ pixel_count = NumPixels) =>
        (dut.s_axis_tvalid = 0 /\ dut.s_axis_tlast = 0)

\* C10: a captured transfer whose m_axis_tuser is a column index c
\* (0 <= c < W) is stored to a pixel of column c.
C10_ColumnFromTuser ==
    (wr_user >= 0 /\ wr_user < IMAGE_WIDTH) =>
        (wr_idx # -1 /\ wr_idx % IMAGE_WIDTH = wr_user)

\* An iteration of the main loop starts in this state.
InIteration == pc = "loop" /\ LoopCond(pixel_count, cycle_count)

\* C11: the producer retires a transfer (tvalid and tlast low, back to
\* Idle-offer) only in an iteration that finds s_axis_tvalid and
\* s_axis_tready both asserted; an iteration that finds it
\* Awaiting-handshake with s_axis_tready low leaves it Awaiting-handshake
\* with tvalid asserted.
C11_RetireOnlyOnHandshake ==
    [][InIteration =>
          /\ (~input_active /\ input_active') =>
                (/\ dut.s_axis_tvalid = 1
                 /\ dut.s_axis_tready = 1
                 /\ dut'.s_axis_tvalid = 0
                 /\ dut'.s_axis_tlast = 0)
          /\ (dut.s_axis_tvalid = 1 /\ dut'.s_axis_tvalid = 0) =>
                (dut.s_axis_tready = 1 /\ input_active')
          /\ (~input_active /\ dut.s_axis_tready = 0) =>
                (~input_active' /\ dut'.s_axis_tvalid = 1)]_vars

\* C11 witness: the first pixel was retired after two iterations of
\* backpressure.
C11_Witness ==
    /\ pc = "loop"
    /\ cycle_count = 4
    /\ pixel_count = 1
    /\ input_active
    /\ dut.s_axis_tvalid = 0
    /\ dut.s_axis_tlast = 0

\* C12: configure_kernel drives one register write: while it waits the
\* pins hold awaddr = 0, wdata = k00, awvalid = wvalid = 1, wstrb = 0xF and
\* no clock toggles; awvalid and wvalid fall only from a state with
\* awready and wready both asserted; awvalid and wvalid rise only at the
\* entry of configure_kernel, and no other address is ever driven.
C12_SingleRegisterWrite ==
    [][/\ pc = "cfg_wait" =>
             (/\ dut.s_axi_awaddr = 0
              /\ dut.s_axi_wdata = K00
              /\ dut.s_axi_awvalid = 1
              /\ dut.s_axi_wvalid = 1
              /\ dut.s_axi_wstrb = 15
              /\ pc' = "cfg_wait" =>
                    (/\ dut'.clk = dut.clk
                     /\ dut'.s_axi_aclk = dut.s_axi_aclk
                     /\ ~(dut.s_axi_awready = 1 /\ dut.s_axi_wready = 1))
              /\ pc' # "cfg_wait" =>
                    (/\ dut.s_axi_awready = 1
                     /\ dut.s_axi_wready = 1
                     /\ dut'.s_axi_awvalid = 0
                     /\ dut'.s_axi_wvalid = 0))
       /\ (dut'.s_axi_awvalid # dut.s_axi_awvalid
           \/ dut'.s_axi_wvalid # dut.s_axi_wvalid) =>
             (\/ pc = "reset" /\ pc' = "cfg_wait"
              \/ pc = "cfg_wait" /\ pc' = "loop")
       /\ pc # "cfg_wait" =>
             (dut.s_axi_awvalid = 0 /\ dut.s_axi_wvalid = 0)
       /\ dut'.s_axi_awaddr = 0
       /\ dut'.s_axi_wdata = K00]_vars

\* C12 witness: the write handshake was observed, the valid pins are low
\* again and the clock is as the reset sequence left it.
C12_Witness ==
    /\ pc = "loop"
    /\ cycle_count = 0
    /\ dut.s_axi_awvalid = 0
    /\ dut.s_axi_wvalid = 0
    /\ dut.s_axi_awready = 1
    /\ dut.s_axi_wready = 1
    /\ dut.s_axi_wstrb = 15
    /\ dut.clk = 0

\* C13: in iteration n the producer and the consumer act on the
\* s_axis_tready, m_axis_tvalid, m_axis_tdata and m_axis_tuser left by the
\* DUT evaluation of iteration n-1 (the pins as the iteration finds them),
\* not on those of the evaluation of iteration n; the clock toggles and the
\* cycle counter advances once per iteration.
C13_ActsOnPreviousEval ==
    [][InIteration =>
          /\ dut'.clk = Not(dut.clk)
          /\ dut'.s_axi_aclk = Not(dut.s_axi_aclk)
          /\ cycle_count' = cycle_count + 1
          /\ (~input_active /\ dut.s_axis_tvalid = 1) =>
                (input_active' <=> dut.s_axis_tready = 1)
          /\ IF dut.m_axis_tvalid = 1
             THEN /\ out_captured' = out_captured + 1
                  /\ wr_user' = dut.m_axis_tuser
                  /\ wr_idx' # -1
                  /\ output_image'[3 * wr_idx' + 0] = dut.m_axis_tdata % 256
                  /\ output_image'[3 * wr_idx' + 1] =
                        (dut.m_axis_tdata \div 256) % 256
                  /\ output_image'[3 * wr_idx' + 2] =
                        (dut.m_axis_tdata \div 65536) % 256
             ELSE /\ out_captured' = out_captured
                  /\ wr_user' = -1
                  /\ output_image' = output_image]_vars

\* C13 witness: an iteration retired a handshake and captured a transfer
\* although its own evaluation left s_axis_tready and m_axis_tvalid low.
C13_Witness ==
    /\ pc = "loop"
    /\ pixel_count >= 1
    /\ input_active
    /\ wr_user >= 0
    /\ output_image # ZeroImage
    /\ dut.s_axis_tready = 0
    /\ dut.m_axis_tvalid = 0

\* C14: every trace->dump() call of the run (reset sequence, then main
\* loop) receives a timestamp greater than that of the call before it, and
\* each loop iteration makes exactly one call.
C14_MonotonicTimestamps ==
    [][/\ trace_dumps' # trace_dumps => trace_time' > trace_time
       /\ InIteration => trace_dumps' = trace_dumps + 1]_vars

\* The word of input pixel k: bytes 3k, 3k+1, 3k+2 of the input image as
\* byte 0, byte 1 and byte 2.
PixelWord(k) ==
    input_image[3 * k] + 256 * input_image[3 * k + 1]
    + 65536 * input_image[3 * k + 2]

\* C15: the k-th offer (k = pixel_count before it) puts input pixel k on
\* s_axis_tdata with s_axis_tuser = k mod W and leaves pixel_count = k + 1;
\* pixel_count moves in no other way, so no pixel is skipped or repeated,
\* whatever s_axis_tready does.
C15_RowMajorOffers ==
    [][/\ Streaming =>
             (/\ pixel_count' \in {pixel_count, pixel_count + 1}
              /\ pixel_count' = pixel_count + 1 =>
                    (/\ dut'.s_axis_tvalid = 1
                     /\ dut'.s_axis_tdata = PixelWord(pixel_count)
                     /\ dut'.s_axis_tuser = pixel_count % IMAGE_WIDTH)
              /\ dut'.s_axis_tvalid = 1 =>
                    (/\ pixel_count' >= 1
                     /\ dut'.s_axis_tdata = PixelWord(pixel_count' - 1)
                     /\ dut'.s_axis_tuser =
                           (pixel_count' - 1) % IMAGE_WIDTH))
       /\ ~Streaming => pixel_count' = 0]_vars

\* C15 witness: the last pixel is on the port after at least one iteration
\* of backpressure on the way.
C15_Witness ==
    /\ Streaming
    /\ pixel_count = NumPixels
    /\ cycle_count >= 2 * NumPixels
    /\ dut.s_axis_tvalid = 1
    /\ dut.s_axis_tdata = PixelWord(NumPixels - 1)
    /\ dut.s_axis_tuser = (NumPixels - 1) % IMAGE_WIDTH

\* C17: between iterations s_axis_tvalid is asserted iff input_active is
\* false; an iteration that starts in Idle-offer with pixels remaining
\* always offers, and it starts with s_axis_tvalid low.
C17_ValidIffAwaiting ==
    [][/\ Streaming => (dut.s_axis_tvalid = 1 <=> ~input_active)
       /\ Streaming => (dut'.s_axis_tvalid = 1 <=> ~input_active')
       /\ (InIteration /\ input_active) =>
             (/\ dut.s_axis_tvalid = 0
              /\ pixel_count' = pixel_count + 1
              /\ ~input_active')]_vars

\* C17 witness: the producer is back in Idle-offer with pixels remaining
\* after a retired handshake.
C17_Witness ==
    /\ InIteration
    /\ input_active
    /\ dut.s_axis_tvalid = 0
    /\ pixel_count >= 1
    /\ retired = pixel_count

\* C18: 0 <= pixel_count <= W*H; the number of handshakes the producer has
\* retired is pixel_count - 1 while s_axis_tvalid is asserted and
\* pixel_count otherwise; pixel_count never decreases and grows by at most
\* one per iteration.
C18_CountsOffers ==
    [][/\ 0 <= pixel_count
       /\ pixel_count <= NumPixels
       /\ retired = (IF dut.s_axis_tvalid = 1 THEN pixel_count - 1
                     ELSE pixel_count)
       /\ pixel_count' <= NumPixels
       /\ retired' = (IF dut'.s_axis_tvalid = 1 THEN pixel_count' - 1
                      ELSE pixel_count')
       /\ pixel_count' >= pixel_count
       /\ pixel_count' <= pixel_count + 1]_vars

\* C18 witness: the third pixel is offered and not yet accepted, two
\* handshakes are retired.
C18_Witness ==
    /\ Streaming
    /\ dut.s_axis_tvalid = 1
    /\ pixel_count = 3
    /\ retired = 2

\* Iterations the producer has spent Awaiting-handshake with
\* s_axis_tready low.
Stalls ==
    cycle_count
    - (2 * pixel_count - (IF dut.s_axis_tvalid = 1 THEN 1 ELSE 0))

\* C19: an offer is made only by an iteration that starts in Idle-offer
\* with s_axis_tvalid low, and leaves the producer Awaiting-handshake, where
\* the next iteration cannot offer; every iteration is an offer, a retire or
\* a stall, so without stalls (s_axis_tready always asserted) offer k is
\* made by iteration 2k and the loop ends with cycle_count = 2*W*H - 1.
C19_NoConsecutiveOffers ==
    [][InIteration =>
          /\ pixel_count' # pixel_count =>
                (/\ input_active
                 /\ dut.s_axis_tvalid = 0
                 /\ ~input_active')
          /\ ~input_active => pixel_count' = pixel_count
          /\ cycle_count = 0 => Stalls = 0
          /\ Stalls' = Stalls + (IF dut.s_axis_tvalid = 1
                                    /\ dut.s_axis_tready = 0
                                 THEN 1 ELSE 0)
          /\ (Stalls' = 0 /\ pixel_count' # pixel_count) =>
                cycle_count = 2 * pixel_count
          /\ (Stalls' = 0 /\ pixel_count' = NumPixels) =>
                cycle_count' = 2 * NumPixels - 1]_vars

\* C19 witness: the loop ended by itself after a run without stalls.
C19_Witness ==
    /\ LoopOver
    /\ pixel_count = NumPixels
    /\ cycle_count = 2 * NumPixels - 1
    /\ retired = NumPixels - 1

\* C20: an accepted output transfer with m_axis_tuser = u is stored to
\* pixel (u*W + ((u+1) mod W)) mod (W*H), which lies in [0, W*H): the
\* transfer is never dropped, exactly that pixel is written with the bytes
\* of the transfer, and every other byte of the output image is unchanged.
C20_DestinationFromTuser ==
    [][(InIteration /\ dut.m_axis_tvalid = 1) =>
          LET u == dut.m_axis_tuser
              idx == (u * IMAGE_WIDTH + ((u + 1) % IMAGE_WIDTH))
                     % (IMAGE_WIDTH * IMAGE_HEIGHT)
          IN  /\ 0 <= idx
              /\ idx < IMAGE_WIDTH * IMAGE_HEIGHT
              /\ wr_idx' = idx
              /\ output_image' =
                    [output_image EXCEPT
                        ![3 * idx] = dut.m_axis_tdata % 256,
                        ![3 * idx + 1] = (dut.m_axis_tdata \div 256) % 256,
                        ![3 * idx + 2] =
                            (dut.m_axis_tdata \div 65536) % 256]]_vars

\* C20 witness: a second transfer, whose tuser is not a column index, has
\* been stored with non-zero bytes.
C20_Witness ==
    /\ out_captured >= 2
    /\ wr_user = TuserMax
    /\ wr_idx = (TuserMax * IMAGE_WIDTH + ((TuserMax + 1) % IMAGE_WIDTH))
                % (IMAGE_WIDTH * IMAGE_HEIGHT)
    /\ output_image[3 * wr_idx] = 4
    /\ output_image[3 * wr_idx + 1] = 3
    /\ output_image[3 * wr_idx + 2] = 2

\* C16: for the channels (r, g, b) of an input pixel the producer's word
\* is r | g<<8 | b<<16 (byte 0 = R, byte 1 = G, byte 2 = B, upper bits
\* zero), and the consumer, unpacking that same word, stores exactly r, g, b
\* at byte offsets +0, +1, +2 of the destination pixel.
C16_PackUnpackInverse ==
    [][/\ dut'.s_axis_tvalid = 1 =>
             LET k == pixel_count' - 1
                 r == input_image[3 * k]
                 g == input_image[3 * k + 1]
                 b == input_image[3 * k + 2]
                 w == dut'.s_axis_tdata
             IN  /\ w = r + 256 * g + 65536 * b
                 /\ w < 16777216
                 /\ w % 256 = r
                 /\ (w \div 256) % 256 = g
                 /\ w \div 65536 = b
       /\ (InIteration /\ dut.m_axis_tvalid = 1) =>
             LET k == pixel_count - 1
             IN  /\ dut.m_axis_tdata = dut.s_axis_tdata
                 /\ wr_idx' # -1
                 /\ output_image'[3 * wr_idx' + 0] = input_image[3 * k]
                 /\ output_image'[3 * wr_idx' + 1] = input_image[3 * k + 1]
                 /\ output_image'[3 * wr_idx' + 2] =
                       input_image[3 * k + 2]]_vars

\* C16 witness: a pixel with three different channel values went through
\* packing and unpacking and was stored.
C16_Witness ==
    /\ input_image[0] = 1
    /\ input_image[1] = 128
    /\ input_image[2] = 255
    /\ wr_idx # -1
    /\ output_image[3 * wr_idx + 0] = 1
    /\ output_image[3 * wr_idx + 1] = 128
    /\ output_image[3 * wr_idx + 2] = 255

====
